---- MODULE Spec2Model ----
(***************************************************************************)
(* Model of the lead board of frnt/src/app/lead/leadDrop/page.tsx: the     *)
(* React component App that loads the leads, groups them by status, and    *)
(* moves a lead between status columns by drag and drop with an optimistic *)
(* local update, a POST to updateLeadStatus, and a rollback when the POST  *)
(* is declined or fails.                                                   *)
(*                                                                         *)
(* One JavaScript task is one action.  handleDrop is cut at its awaits:    *)
(* the part that runs inside the drop event (lines 83-118, up to the call  *)
(* of fetch), and the continuation that runs when the response is there    *)
(* (lines 120-147).  setGroupedLeads does not change the state it is       *)
(* called on: it appends an update to the component's update queue, and    *)
(* React applies the queue when it renders, after the calling task has     *)
(* returned and before the next event; that is the action Render.          *)
(***************************************************************************)
EXTENDS Integers, Sequences, FiniteSets, TLC

\* ---- bounds of the model ----
MaxLeads == 2       \* leads the remote store holds
MaxDrops == 2       \* drop events (calls of handleDrop) in one run
NumColumns == 3     \* status columns the model moves leads between

\* Lead["status"] (line 17) and the keys of statusColors (lines 70-76)
StatusEnum == <<"New", "Discussion", "Demo", "Proposal", "Decided">>
Statuses == {StatusEnum[i] : i \in 1..NumColumns}

\* Lead["_id"] (line 6): opaque strings
IdEnum == <<"L1", "L2", "L3", "L4">>
LeadIds == {IdEnum[i] : i \in 1..MaxLeads}

\* The fields of Lead (lines 5-19) the page acts on; the others are payload.
Lead == [_id : LeadIds, status : Statuses]

VARIABLES
    remote,        \* the backend's leads, in the order getAllLeads returns them
    fetchLeads,    \* the effect of lines 43-54: "pending", "done" or "failed"
    leads,         \* useState, line 39, as rendered
    groupedLeads,  \* useState, line 40: status key -> list of Lead, as rendered
    error,         \* useState, line 41
    updateQueue,   \* updates passed to setLeads and setGroupedLeads that React has
                   \* not applied yet
    dataTransfer,  \* e.dataTransfer of the drag in progress: key -> string
    calls,         \* the calls of handleDrop so far, one record each
    unhandled      \* exceptions that left a handler uncaught

vars == <<remote, fetchLeads, leads, groupedLeads, error, updateQueue,
          dataTransfer, calls, unhandled>>

\* ---- JavaScript values ----
EmptyObject == [k \in {} |-> <<>>]

\* prev[key] is undefined
IsUndefined(obj, key) == key \notin DOMAIN obj

\* prev[key] || []
OrEmpty(obj, key) == IF IsUndefined(obj, key) THEN <<>> ELSE obj[key]

\* An object literal without its spread: only the two computed keys
Spread_OnlyKeys(prev, k1, v1, k2, v2) ==
    [k \in {k1, k2} |-> IF k = k2 THEN v2 ELSE v1]

\* { ...prev, [k1]: v1, [k2]: v2 }: a later key overwrites an earlier one
Spread(prev, k1, v1, k2, v2) ==
    [k \in DOMAIN prev \cup {k1, k2} |->
        IF k = k2 THEN v2 ELSE IF k = k1 THEN v1 ELSE prev[k]]

\* The filter with === in place of !==
FilterOut_Inverted(list, id) == SelectSeq(list, LAMBDA l : l._id = id)

\* list.filter((l) => l._id !== id)
FilterOut(list, id) == SelectSeq(list, LAMBDA l : l._id # id)

\* JSON.stringify(lead): the text stored in the drag data.  A text is a
\* tuple of its tokens; the empty string is the empty tuple.
JSONstringify(lead) == <<lead._id, lead.status>>

\* JSON.parse(text) throws a SyntaxError on the empty string
SyntaxError == "SyntaxError"
TypeError == "TypeError"
ParseThrows(text) == Len(text) # 2
JSONparse(text) == [_id |-> text[1], status |-> text[2]]

\* e.dataTransfer: setData stores a string under a key, getData gives the
\* empty string for a key that was never set
NoData == [k \in {} |-> <<>>]
setData(dt, key, text) == [k \in DOMAIN dt \cup {key} |-> IF k = key THEN text ELSE dt[k]]
getData(dt, key) == IF key \in DOMAIN dt THEN dt[key] ELSE <<>>

\* groupLeadsByStatus with unshift in place of the push of line 62
groupLeadsByStatus_Unshift(ls) ==
    [k \in {ls[i].status : i \in 1..Len(ls)} |->
        LET q == SelectSeq(ls, LAMBDA l : l.status = k)
        IN [n \in 1..Len(q) |-> q[Len(q) + 1 - n]]]

\* ---- lines 57-67 ----
groupLeadsByStatus(ls) ==
    [k \in {ls[i].status : i \in 1..Len(ls)} |->
        SelectSeq(ls, LAMBDA l : l.status = k)]

\* ---- the updaters handed to setGroupedLeads ----
\* OptimisticUpdate appending lead in place of updatedLead (line 98)
OptimisticUpdate_StaleStatus(prev, lead, fromStatus, toStatus) ==
    LET fromLeads == FilterOut(prev[fromStatus], lead._id)
        toLeads == OrEmpty(prev, toStatus) \o <<lead>>
    IN Spread(prev, fromStatus, fromLeads, toStatus, toLeads)

\* OptimisticUpdate without the filter of line 97
OptimisticUpdate_KeepsSource(prev, lead, fromStatus, toStatus) ==
    LET updatedLead == [lead EXCEPT !.status = toStatus]
        toLeads == OrEmpty(prev, toStatus) \o <<updatedLead>>
    IN Spread(prev, fromStatus, prev[fromStatus], toStatus, toLeads)

\* lines 96-105.  prev[fromStatus].filter throws a TypeError when the key is
\* missing: the updater then yields no state.
OptimisticUpdate(prev, lead, fromStatus, toStatus) ==
    LET fromLeads == FilterOut(prev[fromStatus], lead._id)
        updatedLead == [lead EXCEPT !.status = toStatus]
        toLeads == OrEmpty(prev, toStatus) \o <<updatedLead>>
    IN Spread(prev, fromStatus, fromLeads, toStatus, toLeads)

\* RollbackUpdate putting the lead in front (lines 126 and 140)
RollbackUpdate_Prepend(prev, lead, fromStatus, toStatus) ==
    LET toLeads == FilterOut(prev[toStatus], lead._id)
        fromLeads == <<lead>> \o OrEmpty(prev, fromStatus)
    IN Spread(prev, fromStatus, fromLeads, toStatus, toLeads)

\* RollbackUpdate that only removes: [fromStatus] keeps its old list
RollbackUpdate_NoAppend(prev, lead, fromStatus, toStatus) ==
    LET toLeads == FilterOut(prev[toStatus], lead._id)
    IN Spread(prev, fromStatus, OrEmpty(prev, fromStatus), toStatus, toLeads)

\* RollbackUpdate without the filter of lines 125 and 139
RollbackUpdate_KeepsDestination(prev, lead, fromStatus, toStatus) ==
    LET fromLeads == OrEmpty(prev, fromStatus) \o <<lead>>
    IN Spread(prev, fromStatus, fromLeads, toStatus, prev[toStatus])

\* lines 124-132 and 138-146, the same closure twice
RollbackUpdate(prev, lead, fromStatus, toStatus) ==
    LET toLeads == FilterOut(prev[toStatus], lead._id)
        fromLeads == OrEmpty(prev, fromStatus) \o <<lead>>
    IN Spread(prev, fromStatus, fromLeads, toStatus, toLeads)

\* The updater of queue entry u throws on state prev (lines 97, 125, 139)
Throws(prev, u) ==
    \/ u.kind = "optimistic" /\ IsUndefined(prev, u.fromStatus)
    \/ u.kind = "rollback" /\ IsUndefined(prev, u.toStatus)

\* One queued update applied to the state React holds
Reduce(prev, u) ==
    IF u.kind = "setLeads" THEN prev
    ELSE IF u.kind = "set" THEN u.value
    ELSE IF u.kind = "optimistic"
         THEN OptimisticUpdate(prev, u.lead, u.fromStatus, u.toStatus)
    ELSE RollbackUpdate(prev, u.lead, u.fromStatus, u.toStatus)

\* React applies the queue in order; an updater that throws fails the render
\* and the state stays as it was before that updater.
RECURSIVE ProcessUpdateQueue(_, _)
ProcessUpdateQueue(state, queue) ==
    IF queue = <<>> THEN [state |-> state, threw |-> FALSE]
    ELSE IF Throws(state, Head(queue)) THEN [state |-> state, threw |-> TRUE]
    ELSE ProcessUpdateQueue(Reduce(state, Head(queue)), Tail(queue))

\* The state of the leads hook after the queue: the last value set
RECURSIVE ProcessLeadsQueue(_, _)
ProcessLeadsQueue(state, queue) ==
    IF queue = <<>> THEN state
    ELSE ProcessLeadsQueue(IF Head(queue).kind = "setLeads" THEN Head(queue).value ELSE state,
                           Tail(queue))

\* An entry of the update queue: a value (setLeads, line 47, and
\* setGroupedLeads, line 66) or one of the closures of handleDrop
SetUpdate(kind, value) ==
    [kind |-> kind, value |-> value, lead |-> <<>>, fromStatus |-> "", toStatus |-> ""]
MoveUpdate(kind, lead, fromStatus, toStatus) ==
    [kind |-> kind, value |-> <<>>, lead |-> lead,
     fromStatus |-> fromStatus, toStatus |-> toStatus]

\* ---- the remote store ----
\* What the backend may hold: leads with distinct ids, any status each.
RemoteStores ==
    UNION {[1..n -> Statuses] : n \in 0..MaxLeads}
RemoteOf(f) == [i \in DOMAIN f |-> [_id |-> IdEnum[i], status |-> f[i]]]

\* The backend stores the status of lead id
Persist(store, id, status) ==
    [i \in DOMAIN store |->
        IF store[i]._id = id THEN [store[i] EXCEPT !.status = status] ELSE store[i]]

\* ---- initial state: the component is mounted, the load is under way ----
Init ==
    /\ remote \in {RemoteOf(f) : f \in RemoteStores}
    /\ fetchLeads = "pending"
    /\ leads = <<>>
    /\ groupedLeads = EmptyObject
    /\ error = ""
    /\ updateQueue = <<>>
    /\ dataTransfer = NoData
    /\ calls = <<>>
    /\ unhandled = {}

\* React has rendered every update: what is on screen is groupedLeads
Rendered == updateQueue = <<>>

\* ---- lines 22-36, 43-54: getAllLeads answers with success ----
LoadSuccess ==
    /\ fetchLeads = "pending"
    /\ Rendered
    /\ fetchLeads' = "done"
    /\ updateQueue' = updateQueue \o <<SetUpdate("setLeads", remote),
                                       SetUpdate("set", groupLeadsByStatus(remote))>>
    /\ UNCHANGED <<remote, leads, groupedLeads, error, dataTransfer, calls, unhandled>>

\* ---- lines 29-35, 49-51: getAllLeads fails or answers success=false ----
LoadFailure ==
    /\ fetchLeads = "pending"
    /\ Rendered
    /\ fetchLeads' = "failed"
    /\ error' = "Failed to fetch leads"
    /\ UNCHANGED <<remote, leads, groupedLeads, updateQueue, dataTransfer, calls, unhandled>>

\* ---- React renders: the queued updates become the state ----
Render ==
    /\ updateQueue # <<>>
    /\ LET next == ProcessUpdateQueue(groupedLeads, updateQueue)
       IN /\ groupedLeads' = next.state
          /\ unhandled' = IF next.threw THEN unhandled \cup {TypeError} ELSE unhandled
    /\ leads' = ProcessLeadsQueue(leads, updateQueue)
    /\ updateQueue' = <<>>
    /\ UNCHANGED <<remote, fetchLeads, error, dataTransfer, calls>>

\* ---- lines 78-81, 179: a rendered card is picked up ----
handleDragStart(lead, fromStatus) ==
    /\ Rendered
    /\ Len(calls) < MaxDrops
    /\ fromStatus \in DOMAIN groupedLeads
    /\ \E i \in 1..Len(groupedLeads[fromStatus]) : groupedLeads[fromStatus][i] = lead
    /\ dataTransfer' = setData(setData(NoData, "lead", JSONstringify(lead)),
                               "fromStatus", <<fromStatus>>)
    /\ UNCHANGED <<remote, fetchLeads, leads, groupedLeads, error, updateQueue,
                   calls, unhandled>>

\* ---- console output of handleDrop ----
WarnSameCategory == "Cannot drop into the same category."          \* line 90
ErrorServerFailed == "Failed to update lead status on server."     \* line 133
ErrorUpdating == "Error updating lead status:"                     \* line 136

\* The test of line 89 left out
SameCategory_Never(fromStatus, toStatus) == FALSE

\* line 89: fromStatus === toStatus
SameCategory(fromStatus, toStatus) == fromStatus = toStatus

\* The test of line 122 without its negation
ServerFailed_Inverted(success) == success

\* line 122: !data.success
ServerFailed(success) == ~success

\* A call of handleDrop: its locals (lead, fromStatus, toStatus), where it
\* stands (pc), the data.success of the answer once there is one, whether the
\* catch block ran, what it has logged, and how often it has called
\* setGroupedLeads with the rollback closure.
\*   pc: "threw"      line 85 threw
\*       "returned"   line 91
\*       "fetch"      awaiting fetch, the request is on its way (line 109)
\*       "response"   the backend has answered, the answer is on its way
\*       "confirmed"  ended after line 122 with data.success
\*       "rolledback" ended after line 133 or line 146
\* inSource and overlapped are history: whether the lead was shown in column
\* fromStatus when the drop came, and whether another call for the same lead
\* was awaiting its answer at any time while this one was.
NoLead == [_id |-> "", status |-> ""]
Call(lead, fromStatus, toStatus, pc, console, inSource, overlapped) ==
    [lead |-> lead, fromStatus |-> fromStatus, toStatus |-> toStatus, pc |-> pc,
     success |-> FALSE, caught |-> FALSE, console |-> console, rollbacks |-> 0,
     inSource |-> inSource, overlapped |-> overlapped]

\* The call awaits the fetch of line 109 or the response.json() of line 120
InFlight(c) == c.pc \in {"fetch", "response"}

\* Column status of grouped shows a card of lead id
Shows(grouped, status, id) ==
    /\ status \in DOMAIN grouped
    /\ \E i \in 1..Len(grouped[status]) : grouped[status][i]._id = id

\* ---- lines 83-118: the drop event, up to the await of fetch ----
handleDrop(toStatus) ==
    /\ Rendered
    /\ Len(calls) < MaxDrops
    /\ dataTransfer' = NoData
    /\ IF ParseThrows(getData(dataTransfer, "lead"))
       THEN \* line 85 throws: the promise of handleDrop rejects, nobody catches it
            /\ unhandled' = unhandled \cup {SyntaxError}
            /\ calls' = Append(calls, Call(NoLead, "", toStatus, "threw", <<>>, FALSE, FALSE))
            /\ UNCHANGED <<remote, fetchLeads, leads, groupedLeads, error, updateQueue>>
       ELSE LET lead == JSONparse(getData(dataTransfer, "lead"))
                fromStatus == getData(dataTransfer, "fromStatus")[1]
                racing == {j \in 1..Len(calls) :
                              InFlight(calls[j]) /\ calls[j].lead._id = lead._id}
            IN IF SameCategory(fromStatus, toStatus)
               THEN \* lines 89-92
                    /\ calls' = Append(calls, Call(lead, fromStatus, toStatus, "returned",
                                                   <<WarnSameCategory>>, TRUE, FALSE))
                    /\ UNCHANGED <<remote, fetchLeads, leads, groupedLeads, error,
                                   updateQueue, unhandled>>
               ELSE \* lines 95-118: setGroupedLeads, then fetch
                    /\ updateQueue' = Append(updateQueue,
                           MoveUpdate("optimistic", lead, fromStatus, toStatus))
                    /\ calls' = Append(
                           [j \in 1..Len(calls) |->
                               IF j \in racing THEN [calls[j] EXCEPT !.overlapped = TRUE]
                               ELSE calls[j]],
                           Call(lead, fromStatus, toStatus, "fetch", <<>>,
                                Shows(groupedLeads, fromStatus, lead._id), racing # {}))
                    /\ UNCHANGED <<remote, fetchLeads, leads, groupedLeads, error, unhandled>>

\* ---- the backend's updateLeadStatus ----
\* It stores the status and answers success: true
updateLeadStatus(i) ==
    /\ calls[i].pc = "fetch"
    /\ remote' = Persist(remote, calls[i].lead._id, calls[i].toStatus)
    /\ calls' = [calls EXCEPT ![i].pc = "response", ![i].success = TRUE]
    /\ UNCHANGED <<fetchLeads, leads, groupedLeads, error, updateQueue, dataTransfer, unhandled>>

\* It declines: nothing stored, success: false
updateLeadStatusDeclined(i) ==
    /\ calls[i].pc = "fetch"
    /\ calls' = [calls EXCEPT ![i].pc = "response", ![i].success = FALSE]
    /\ UNCHANGED <<remote, fetchLeads, leads, groupedLeads, error, updateQueue,
                   dataTransfer, unhandled>>

\* The continuation with the block of lines 122-134 left out: an answer with
\* success=false is never acted on
handleDropResponse_IgnoresFailure(i) ==
    /\ Rendered
    /\ calls[i].pc = "response"
    /\ calls[i].success
    /\ calls' = [calls EXCEPT ![i].pc = "confirmed"]
    /\ UNCHANGED <<remote, fetchLeads, leads, groupedLeads, error, updateQueue,
                   dataTransfer, unhandled>>

\* ---- lines 120-134: the answer is there and parses ----
handleDropResponse(i) ==
    /\ Rendered
    /\ calls[i].pc = "response"
    /\ IF ServerFailed(calls[i].success)
       THEN \* lines 122-134
            /\ updateQueue' = Append(updateQueue,
                   MoveUpdate("rollback", calls[i].lead, calls[i].fromStatus, calls[i].toStatus))
            /\ calls' = [calls EXCEPT ![i].pc = "rolledback",
                                      ![i].rollbacks = @ + 1,
                                      ![i].console = Append(@, ErrorServerFailed)]
       ELSE \* nothing more to do
            /\ calls' = [calls EXCEPT ![i].pc = "confirmed"]
            /\ UNCHANGED updateQueue
    /\ UNCHANGED <<remote, fetchLeads, leads, groupedLeads, error, dataTransfer, unhandled>>

\* The catch block sending the request again instead of giving up
handleDropCatch_Retry(i) ==
    /\ Rendered
    /\ calls[i].pc = "response"
    /\ calls' = [calls EXCEPT ![i].pc = "fetch",
                              ![i].caught = TRUE,
                              ![i].console = Append(@, ErrorUpdating)]
    /\ UNCHANGED <<remote, fetchLeads, leads, groupedLeads, error, updateQueue,
                   dataTransfer, unhandled>>

\* The catch block without its setGroupedLeads (lines 138-146)
handleDropCatch_NoRollback(i) ==
    /\ Rendered
    /\ InFlight(calls[i])
    /\ calls' = [calls EXCEPT ![i].pc = "rolledback",
                              ![i].caught = TRUE,
                              ![i].console = Append(@, ErrorUpdating)]
    /\ UNCHANGED <<remote, fetchLeads, leads, groupedLeads, error, updateQueue,
                   dataTransfer, unhandled>>

\* ---- lines 135-147: fetch rejects (the request or its answer is lost,
\* whether or not the backend has acted on it) or response.json() rejects ----
handleDropCatch(i) ==
    /\ Rendered
    /\ InFlight(calls[i])
    /\ updateQueue' = Append(updateQueue,
           MoveUpdate("rollback", calls[i].lead, calls[i].fromStatus, calls[i].toStatus))
    /\ calls' = [calls EXCEPT ![i].pc = "rolledback",
                              ![i].caught = TRUE,
                              ![i].rollbacks = @ + 1,
                              ![i].console = Append(@, ErrorUpdating)]
    /\ UNCHANGED <<remote, fetchLeads, leads, groupedLeads, error, dataTransfer, unhandled>>

Next ==
    \/ LoadSuccess
    \/ LoadFailure
    \/ Render
    \/ \E lead \in Lead, fromStatus \in Statuses : handleDragStart(lead, fromStatus)
    \/ \E toStatus \in Statuses : handleDrop(toStatus)
    \/ \E i \in 1..Len(calls) : updateLeadStatus(i)
    \/ \E i \in 1..Len(calls) : updateLeadStatusDeclined(i)
    \/ \E i \in 1..Len(calls) : handleDropResponse(i)
    \/ \E i \in 1..Len(calls) : handleDropCatch(i)

Spec == Init /\ [][Next]_vars

\* ---- scheduling ----
\* The backend answers the request of call i
Answer(i) ==
    /\ i \in 1..Len(calls)
    /\ (updateLeadStatus(i) \/ updateLeadStatusDeclined(i))

\* The event loop runs the continuation of call i once its answer is there
Resume(i) ==
    /\ i \in 1..Len(calls)
    /\ handleDropResponse(i)

\* Every remote call completes, every continuation whose promise has settled
\* is run, and React renders what is queued.  A transport error may happen
\* but need not.
LiveSpec ==
    /\ Spec
    /\ WF_vars(Render)
    /\ \A i \in 1..MaxDrops : WF_vars(Answer(i)) /\ WF_vars(Resume(i))

\* ======================= properties =======================
\* A call that got past line 92: a transition attempt with S # D
Attempt(c) == c.pc \in {"fetch", "response", "confirmed", "rolledback"}

\* No call after call i has moved the same lead
Latest(i) ==
    \A j \in (i+1)..Len(calls) :
        ~(Attempt(calls[j]) /\ calls[j].lead._id = calls[i].lead._id)

\* Call i was the only one on its lead while it was awaiting its answer, and
\* the lead was shown in its source column when it was dropped
Alone(i) == calls[i].inSource /\ ~calls[i].overlapped

\* How often a call has logged message m
Logged(c, m) == Cardinality({k \in 1..Len(c.console) : c.console[k] = m})

\* The conditions of the specification, as the code reports them
NoOpTransition(c) == Logged(c, WarnSameCategory)
TransitionRejected(c) == Logged(c, ErrorServerFailed)
TransitionUnconfirmed(c) == Logged(c, ErrorUpdating)

\* Call i has ended with a rollback and React has rendered it
RolledBackAndRendered(i) ==
    /\ calls[i].pc = "rolledback"
    /\ Rendered
    /\ Alone(i)
    /\ Latest(i)

\* C1: when updateLeadStatus answers success=false to an attempt that is alone
\* on its lead, then once the attempt has ended and React has rendered, the
\* lead is shown in the source column and not in the destination column, the
\* rollback closure was handed to setGroupedLeads exactly once, and
\* TransitionRejected was reported exactly once (and TransitionUnconfirmed not).
C1_RollbackOnRejection ==
    \A i \in 1..Len(calls) :
        (RolledBackAndRendered(i) /\ ~calls[i].caught) =>
            /\ Shows(groupedLeads, calls[i].fromStatus, calls[i].lead._id)
            /\ ~Shows(groupedLeads, calls[i].toStatus, calls[i].lead._id)
            /\ calls[i].rollbacks = 1
            /\ TransitionRejected(calls[i]) = 1
            /\ TransitionUnconfirmed(calls[i]) = 0

C1_Witness ==
    \E i \in 1..Len(calls) :
        /\ RolledBackAndRendered(i)
        /\ ~calls[i].caught
        /\ ~calls[i].success
        /\ Shows(groupedLeads, calls[i].fromStatus, calls[i].lead._id)

\* C2: when the fetch or the parsing of its answer throws for an attempt that
\* is alone on its lead, then once the attempt has ended and React has
\* rendered, the store is as after a rejection (the lead shown in the source
\* column and not in the destination column), the rollback closure was handed
\* to setGroupedLeads exactly once, and TransitionUnconfirmed was reported
\* exactly once and TransitionRejected not at all.
C2_RollbackOnTransportError ==
    \A i \in 1..Len(calls) :
        (RolledBackAndRendered(i) /\ calls[i].caught) =>
            /\ Shows(groupedLeads, calls[i].fromStatus, calls[i].lead._id)
            /\ ~Shows(groupedLeads, calls[i].toStatus, calls[i].lead._id)
            /\ calls[i].rollbacks = 1
            /\ TransitionUnconfirmed(calls[i]) = 1
            /\ TransitionRejected(calls[i]) = 0

C2_Witness ==
    \E i \in 1..Len(calls) :
        /\ RolledBackAndRendered(i)
        /\ calls[i].caught
        /\ ~Shows(groupedLeads, calls[i].toStatus, calls[i].lead._id)

C4_IdempotentConfirmation ==
    [][\A i \in 1..Len(calls) :
          (calls[i].pc = "response" /\ calls[i].success /\ calls'[i].pc # "response"
             /\ ~calls'[i].caught) =>
              /\ groupedLeads' = groupedLeads
              /\ updateQueue' = updateQueue
              /\ updateQueue' = <<>>
              /\ calls'[i].pc = "confirmed"
              /\ calls'[i].rollbacks = 0]_vars

C4_Witness ==
    \E i \in 1..Len(calls) :
        /\ calls[i].pc = "confirmed"
        /\ Alone(i)
        /\ Shows(groupedLeads, calls[i].toStatus, calls[i].lead._id)
        /\ ~Shows(groupedLeads, calls[i].fromStatus, calls[i].lead._id)

\* The step is a drop on the column the drag started from
SameColumnDrop ==
    /\ Len(calls') = Len(calls) + 1
    /\ ~ParseThrows(getData(dataTransfer, "lead"))
    /\ getData(dataTransfer, "fromStatus")[1] = calls'[Len(calls')].toStatus

\* C5: a drop on the source column changes neither the store, nor the update
\* queue, nor the remote store, nor any other call, sends no request, and
\* reports NoOpTransition once.
C5_NoOpRejection ==
    [][SameColumnDrop =>
          /\ groupedLeads' = groupedLeads
          /\ updateQueue' = updateQueue
          /\ remote' = remote
          /\ \A j \in 1..Len(calls) : calls'[j] = calls[j]
          /\ ~InFlight(calls'[Len(calls')])
          /\ calls'[Len(calls')].pc = "returned"
          /\ NoOpTransition(calls'[Len(calls')]) = 1]_vars

C5_Witness ==
    \E i, j \in 1..Len(calls) :
        /\ calls[i].pc = "returned"
        /\ NoOpTransition(calls[i]) = 1
        /\ j < i
        /\ InFlight(calls[j])

\* The columns that show a card of lead id
ColumnsOf(id) == {k \in DOMAIN groupedLeads : Shows(groupedLeads, k, id)}

\* The ids of the leads the load has delivered
LoadedIds == {leads[k]._id : k \in 1..Len(leads)}

\* No call has handed a rollback to setGroupedLeads: no answer so far was a
\* failure
NoRollback == \A i \in 1..Len(calls) : calls[i].pc # "rolledback"

\* C6: as long as no attempt has failed, every loaded lead is in exactly one
\* column, in every state, whatever the order of the answers.
C6_DisjointnessUnderSuccess ==
    NoRollback => \A id \in LoadedIds : Cardinality(ColumnsOf(id)) = 1

C6_Witness ==
    /\ NoRollback
    /\ Len(leads) = 2
    /\ \E i, j \in 1..Len(calls) :
          /\ i < j
          /\ calls[i].lead._id = calls[j].lead._id
          /\ calls[j].pc = "confirmed"
          /\ calls[i].pc = "response"
          /\ calls[i].overlapped

\* C7: no lead is ever in more than one column.
C7_PartitionDisjointness ==
    \A id \in LeadIds : Cardinality(ColumnsOf(id)) <= 1

\* C8: there are never two attempts on the same lead that both await their
\* answer.
C8_PerRecordSerialization ==
    \A i, j \in 1..Len(calls) :
        (i < j /\ InFlight(calls[i]) /\ InFlight(calls[j])) =>
            calls[i].lead._id # calls[j].lead._id

\* No attempt awaits its answer and React has rendered every update
Quiescent ==
    /\ Rendered
    /\ fetchLeads = "done"
    /\ \A i \in 1..Len(calls) : ~InFlight(calls[i])

\* C9: whenever no attempt is in flight, each lead is shown in the column of
\* the status the remote store holds for it, and in no other.
C9_LocalRemoteSynchronized ==
    Quiescent => \A k \in 1..Len(remote) : ColumnsOf(remote[k]._id) = {remote[k].status}

\* C10: in the state in which the request of an attempt has been dispatched,
\* the store already shows the lead in the destination column and no longer in
\* the source column.
C10_OptimisticBeforeDispatch ==
    [][\A i \in 1..Len(calls') :
          (i > Len(calls) /\ calls'[i].pc = "fetch") =>
              /\ Shows(groupedLeads', calls'[i].toStatus, calls'[i].lead._id)
              /\ ~Shows(groupedLeads', calls'[i].fromStatus, calls'[i].lead._id)]_vars

\* The column a queued move takes the lead from
ClaimedSource(u) == IF u.kind = "optimistic" THEN u.fromStatus ELSE u.toStatus

\* The column a queued move puts the lead in
Destination(u) == IF u.kind = "optimistic" THEN u.toStatus ELSE u.fromStatus

\* The update React is about to apply is a move u of handleDrop
MovePending(u) ==
    /\ Len(updateQueue) = 1
    /\ u = updateQueue[1]
    /\ u.kind \in {"optimistic", "rollback"}

\* C11: a move (optimistic or rollback) whose claimed source column does not
\* show the lead leaves the store as it is; the lead is not put in the
\* destination column.
C11_NotFoundLeavesStore ==
    [][\A u \in {updateQueue[k] : k \in 1..Len(updateQueue)} :
          (MovePending(u) /\ updateQueue' = <<>>
             /\ ~Shows(groupedLeads, ClaimedSource(u), u.lead._id)) =>
              groupedLeads' = groupedLeads]_vars

\* C12: a drop that carries no drag data changes neither the store nor the
\* update queue, sends no request and raises no fault.
C12_AbandonedIgnored ==
    [][(Len(calls') = Len(calls) + 1 /\ ParseThrows(getData(dataTransfer, "lead"))) =>
          /\ groupedLeads' = groupedLeads
          /\ updateQueue' = updateQueue
          /\ ~InFlight(calls'[Len(calls')])
          /\ unhandled' = unhandled]_vars

\* The call has ended
Ended(c) == c.pc \in {"threw", "returned", "confirmed", "rolledback"}

\* C13: a request goes out only in the drop step that starts an attempt: no
\* call that has left the await of fetch enters it again, and a call that has
\* ended, by success, rejection or transport error, stays as it ended.
C13_NoAutomaticRetry ==
    [][\A i \in 1..Len(calls') :
          IF i > Len(calls)
          THEN Attempt(calls'[i]) => calls'[i].pc = "fetch"
          ELSE /\ calls'[i].pc = "fetch" => calls[i].pc = "fetch"
               /\ Ended(calls[i]) => calls'[i] = calls[i]]_vars

C13_Witness ==
    \E i, j \in 1..Len(calls) :
        /\ calls[i].pc = "rolledback" /\ calls[i].caught
        /\ calls[j].pc = "rolledback" /\ ~calls[j].caught
        /\ Rendered

\* The places <<column, index>> where the store holds a card of lead id
Places(id) ==
    {p \in UNION {{<<k, n>> : n \in 1..Len(groupedLeads[k])} : k \in DOMAIN groupedLeads} :
        groupedLeads[p[1]][p[2]]._id = id}

\* The load has succeeded and is rendered, and no lead has been moved yet
Seeded ==
    /\ fetchLeads = "done"
    /\ Rendered
    /\ \A i \in 1..Len(calls) : ~Attempt(calls[i])

\* C14: after the load, every lead of the data array is in the store exactly
\* once, unchanged, under the key of its status; leads of one status keep the
\* order of the data array; every card under a key has that status.
C14_InitialSeeding ==
    Seeded =>
        /\ leads = remote
        /\ \A i \in 1..Len(remote) :
              /\ Cardinality(Places(remote[i]._id)) = 1
              /\ \A p \in Places(remote[i]._id) :
                    p[1] = remote[i].status /\ groupedLeads[p[1]][p[2]] = remote[i]
        /\ \A k \in DOMAIN groupedLeads : \A n \in 1..Len(groupedLeads[k]) :
              groupedLeads[k][n].status = k
        /\ \A i, j \in 1..Len(remote) :
              (i < j /\ remote[i].status = remote[j].status) =>
                  \A p \in Places(remote[i]._id), q \in Places(remote[j]._id) : p[2] < q[2]

C14_Witness ==
    /\ Seeded
    /\ Len(remote) = 2
    /\ remote[1].status = remote[2].status
    /\ Len(groupedLeads[remote[1].status]) = 2

\* No two attempts are on the same lead
DistinctRecords ==
    \A i, j \in 1..Len(calls) :
        (i < j /\ Attempt(calls[i]) /\ Attempt(calls[j])) =>
            calls[i].lead._id # calls[j].lead._id

\* The attempts on lead id
AttemptsOn(id) == {i \in 1..Len(calls) : Attempt(calls[i]) /\ calls[i].lead._id = id}

\* C15: with attempts on distinct leads only, in every rendering and whatever
\* the order of the answers, a lead is in exactly the destination column of
\* its attempt while that awaits its answer or once it is confirmed, in
\* exactly the source column once it is rolled back, and in the column of its
\* loaded status when there is no attempt on it.
C15_DistinctRecordsIndependent ==
    (DistinctRecords /\ Rendered /\ fetchLeads = "done") =>
        \A k \in 1..Len(leads) :
            /\ AttemptsOn(leads[k]._id) = {} => ColumnsOf(leads[k]._id) = {leads[k].status}
            /\ \A i \in AttemptsOn(leads[k]._id) :
                  ColumnsOf(leads[k]._id) =
                      {IF calls[i].pc = "rolledback" THEN calls[i].fromStatus
                       ELSE calls[i].toStatus}

C15_Witness ==
    /\ DistinctRecords /\ Rendered
    /\ \E i, j \in 1..Len(calls) :
          /\ i < j
          /\ calls[i].pc = "rolledback"
          /\ calls[j].pc = "confirmed"
          /\ calls[i].toStatus = calls[j].toStatus
          /\ calls[i].fromStatus = calls[j].fromStatus
          /\ ColumnsOf(calls[i].lead._id) = {calls[i].fromStatus}
          /\ ColumnsOf(calls[j].lead._id) = {calls[j].toStatus}

\* Call i has reached Confirmed or RolledBack
Terminal(i) == i <= Len(calls) /\ calls[i].pc \in {"confirmed", "rolledback"}

\* Call i is OptimisticallyApplied: its update is queued or applied and its
\* answer is awaited
Applied(i) == i <= Len(calls) /\ InFlight(calls[i])

\* The steps of one call: it starts as an attempt only by queueing its
\* optimistic update and awaiting fetch, goes on only towards confirmed or
\* rolledback, and once there stays as it is
AttemptSteps ==
    \A i \in 1..Len(calls') :
        IF i > Len(calls)
        THEN Attempt(calls'[i]) =>
                /\ calls'[i].pc = "fetch"
                /\ updateQueue' = Append(updateQueue,
                       MoveUpdate("optimistic", calls'[i].lead, calls'[i].fromStatus,
                                  calls'[i].toStatus))
        ELSE /\ calls[i].pc = "fetch" =>
                  calls'[i].pc \in {"fetch", "response", "rolledback"}
             /\ calls[i].pc = "response" =>
                  calls'[i].pc \in {"response", "confirmed", "rolledback"}
             /\ calls[i].pc \in {"confirmed", "rolledback"} => calls'[i] = calls[i]
             /\ (calls'[i].pc = "confirmed" /\ calls[i].pc # "confirmed") =>
                  (calls'[i].rollbacks = 0 /\ updateQueue' = updateQueue)
             /\ (calls'[i].pc = "rolledback" /\ calls[i].pc # "rolledback") =>
                  (calls'[i].rollbacks = 1 /\ Len(updateQueue') = Len(updateQueue) + 1)

\* C16: every attempt goes Idle -> OptimisticallyApplied -> Confirmed or
\* RolledBack; when every remote call completes, every attempt that was
\* optimistically applied reaches Confirmed or RolledBack, and from then on it
\* hands nothing more to setGroupedLeads.
C16_AttemptStateMachine ==
    /\ [][AttemptSteps]_vars
    /\ \A i \in 1..MaxDrops : Applied(i) ~> Terminal(i)

C16_Witness ==
    \E i, j \in 1..Len(calls) :
        /\ calls[i].pc = "confirmed"
        /\ calls[j].pc = "rolledback"
        /\ calls[i].lead._id = calls[j].lead._id
        /\ Rendered

\* The cards of a list other than those of lead id, in their order
Others(list, id) == SelectSeq(list, LAMBDA l : l._id # id)

\* C17: the render of a move (optimistic or rollback) leaves the lead as the
\* last card of the column the move puts it in, behind every card that was
\* there, removes it from the column the move takes it from, and keeps the
\* other cards of every column as they were and in their order.
C17_InsertionAtEnd ==
    [][\A u \in {updateQueue[k] : k \in 1..Len(updateQueue)} :
          (MovePending(u) /\ updateQueue' = <<>>) =>
              LET id == u.lead._id
                  dst == Destination(u)
                  src == ClaimedSource(u)
              IN /\ dst \in DOMAIN groupedLeads'
                 /\ Len(groupedLeads'[dst]) = Len(OrEmpty(groupedLeads, dst)) + 1
                 /\ groupedLeads'[dst][Len(groupedLeads'[dst])]._id = id
                 /\ SubSeq(groupedLeads'[dst], 1, Len(groupedLeads'[dst]) - 1)
                        = OrEmpty(groupedLeads, dst)
                 /\ ~Shows(groupedLeads', src, id)
                 /\ \A k \in DOMAIN groupedLeads :
                       Others(groupedLeads'[k], id) = Others(groupedLeads[k], id)]_vars

C17_Witness ==
    \E i \in 1..Len(calls) :
        /\ RolledBackAndRendered(i)
        /\ Len(leads) = 2
        /\ leads[1]._id = calls[i].lead._id
        /\ leads[2].status = calls[i].fromStatus
        /\ groupedLeads[calls[i].fromStatus] = <<leads[2], leads[1]>>

\* C18: every card under status key K has status K.
C18_StatusMatchesKey ==
    \A k \in DOMAIN groupedLeads : \A n \in 1..Len(groupedLeads[k]) :
        groupedLeads[k][n].status = k

C18_Witness ==
    /\ Rendered
    /\ \E i, j \in 1..Len(calls) :
          /\ calls[i].pc = "rolledback"
          /\ \E n \in 1..Len(groupedLeads[calls[i].fromStatus]) :
                groupedLeads[calls[i].fromStatus][n] = calls[i].lead
          /\ InFlight(calls[j])
          /\ \E n \in 1..Len(groupedLeads[calls[j].toStatus]) :
                groupedLeads[calls[j].toStatus][n] =
                    [calls[j].lead EXCEPT !.status = calls[j].toStatus]

\* C19: every loaded lead is in at least one column, in every state.
C19_NoRecordLoss ==
    \A id \in LoadedIds : ColumnsOf(id) # {}

C19_Witness ==
    /\ Rendered
    /\ \E i, j \in 1..Len(calls) :
          /\ i < j
          /\ calls[i].lead._id = calls[j].lead._id
          /\ calls[i].overlapped /\ calls[j].overlapped
          /\ calls[i].pc = "rolledback" /\ calls[j].pc = "rolledback"
          /\ ColumnsOf(calls[i].lead._id) # {}

\* C20: no column holds two cards of the same lead.
C20_NoDuplicateInColumn ==
    \A id \in LeadIds : \A p, q \in Places(id) : p[1] = q[1] => p = q
====
